---- MODULE Spec2Model ----
(***************************************************************************)
(* Model of RTKNode (rtk_ros/include/rtk_ros/rtk_node.hpp): the session    *)
(* bridge between a serial transport and the GNSS protocol decoder.        *)
(*                                                                         *)
(* The node is single threaded.  pc is the position of that thread:        *)
(*   "idle"            between two public operations                       *)
(*   "connect_open"    connect(), about to call serial->open() (line 69)   *)
(*   "connect_isopen"  connect(), at the isOpen() test of line 70          *)
(*   "connect_try"     connect(), in the try block of the loop (line 83)   *)
(*   "connect_check"   connect(), at the isOpen() test of line 89          *)
(*   "connect_ret"     connect() has just returned to its caller           *)
(*   "run_configure"   run(), inside gpsDriver->configure (line 102)       *)
(*   "run_loop"        run(), at the loop test of line 111                 *)
(*   "run_receive"     run(), inside gpsDriver->receive (line 112)         *)
(*   "run_end"         run(), at line 137                                  *)
(*   "connect_thrown"  an exception left connect()                         *)
(*   "run_thrown"      an exception left run()                             *)
(*   "fault"           a null pointer was dereferenced                     *)
(* The serial library and the decoder are external: their outcomes are     *)
(* inputs, chosen with \E from the small sets below.                       *)
(***************************************************************************)
EXTENDS Integers, Sequences, FiniteSets, TLC

VARIABLES
    pc,             \* position of the node's thread
    baud,           \* RTKNode::baud, the requested rate
    serial,         \* *RTKNode::serial, or NoSerial while the pointer is null
    connected,      \* RTKNode::connected
    gpsDriver,      \* RTKNode::gpsDriver is non-null
    tries,          \* connect(): the loop variable of line 80
    numTries,       \* run(): the local of line 109
    rosOk,          \* what ros::ok() returns
    reportGPSPos,   \* RTKNode::reportGPSPos (its fix_type)
    GPSPublisher,   \* messages published on "gps" since the loop test
    satPublished,   \* publishGPSSatellite() invocations since the loop test
    RTCMPublisher,  \* messages published on the RTCM topic since the loop test
    rtcmBuf,        \* the decoder's RTCM buffer (what data1 points to)
    rtcmSent,       \* the bytes the decoder handed to the last RTCM callback
    surveyInStatus, \* RTKNode::surveyInStatus: which struct it points to
    decSurvey,      \* the decoder's own survey-in struct (its flags)
    cb,             \* the callback invocation that returned last in this decoder call
    nCallbacks,     \* callbacks made by the decoder call in progress
    openAt,         \* the transport opens on its openAt-th open attempt
    opens,          \* open attempts made so far on the closed transport
    openLog,        \* outcomes of the open() calls of the current connect()
    iterLog,        \* run(): one record per loop iteration of the current run()
    configures,     \* run(): configure calls and result of the current run()
    nConnects,      \* connect() calls made so far
    nRuns           \* run() calls made so far

vars == << pc, baud, serial, connected, gpsDriver, tries, numTries, rosOk,
           reportGPSPos, GPSPublisher, satPublished, RTCMPublisher, rtcmBuf, rtcmSent,
           surveyInStatus, decSurvey, cb, nCallbacks, openAt, opens, openLog,
           iterLog, configures, nConnects, nRuns >>

(***************************************************************************)
(* Bounds of the model.                                                    *)
(***************************************************************************)
MaxConnects   == 2      \* connect() calls per behaviour
MaxRuns       == 2      \* run() calls per behaviour
MaxIter       == 4      \* receive() calls per run() of the session loop
MaxIterAll    == 1      \* receive() calls per run() elsewhere
MaxIterE2E    == 6      \* receive() calls per run() in the end-to-end scenario
MaxCallbacks  == 1      \* callbacks per configure()/receive() call
MaxOpenAt     == 6      \* latest attempt at which the transport first opens
MaxLen        == 2      \* longest RTCM message / largest I/O request
MaxFlags      == 7      \* largest survey-in flags value of the survey scenario
MaxCode       == 10     \* largest fix-quality code of the status scenario

(***************************************************************************)
(* Program constants.                                                      *)
(***************************************************************************)
ConnectTries   == 5     \* line 80: tries < 5
ReceiveTries   == 3     \* line 111: numTries < 3
ReadTimeout    == 500   \* line 91: simpleTimeout(500)

RequestedBauds == {38400}
DriverBauds    == {9600, 38400}
Results        == {-1, 0, 1, 2, 3, 4}   \* what receive() may return
E2EResults     == {0, 1, 3}             \* receive() results of the scenario
FixTypes       == {0, 3, 8}             \* fix_type values the decoder writes
Bytes          == {0, 1}

NoSerial == [exists |-> FALSE]
NoCall   == [type |-> "none"]

\* a default constructed serial::Serial (line 66): closed, nothing configured;
\* connectRate is the rate of the last setBaudrate call made by connect()
NewSerial == [exists |-> TRUE, isOpen |-> FALSE, port |-> "unset",
              baudrate |-> 0, bytesize |-> "unset", parity |-> "unset",
              stopbits |-> "unset", flowcontrol |-> "unset", timeout |-> 0,
              connectRate |-> 0]

Init ==
    /\ pc = "idle"
    /\ baud \in RequestedBauds
    /\ serial = NoSerial
    /\ connected = FALSE
    /\ gpsDriver = FALSE
    /\ tries = 0
    /\ numTries = 0
    /\ rosOk = TRUE
    /\ reportGPSPos = 0
    /\ GPSPublisher = << >>
    /\ satPublished = 0
    /\ RTCMPublisher = << >>
    /\ rtcmBuf = << >>
    /\ rtcmSent = << >>
    /\ surveyInStatus = "own"
    /\ decSurvey = 0
    /\ cb = NoCall
    /\ nCallbacks = 0
    /\ openAt \in 1..MaxOpenAt
    /\ opens = 0
    /\ openLog = << >>
    /\ iterLog = << >>
    /\ configures = << >>
    /\ nConnects = 0
    /\ nRuns = 0

(***************************************************************************)
(* The transport.  open() on a closed port is attempt number opens+1; it   *)
(* succeeds from attempt openAt on.  A failed open either returns with the *)
(* port closed ("fail"), throws serial::IOException ("io") or throws       *)
(* anything else ("other").  open() on an open port either leaves it open, *)
(* returning ("noop") or throwing a non-IOException ("other"), or fails to *)
(* reopen it and leaves it closed, returning ("fail") or throwing ("io"):  *)
(* the loop of lines 80-98 handles a port that open() left closed although *)
(* line 70 found it open.                                                  *)
(***************************************************************************)
OpenOutcomes(s, n) ==
    IF s.isOpen THEN {"noop", "other", "fail", "io"}
    ELSE IF n + 1 >= openAt THEN {"ok"}
    ELSE {"fail", "io", "other"}

Throws(o) == o \in {"io", "other"}

SerialOpen(s, o) ==
    IF o = "ok" THEN [s EXCEPT !.isOpen = TRUE]
    ELSE IF o \in {"fail", "io"} THEN [s EXCEPT !.isOpen = FALSE]
    ELSE s

(***************************************************************************)
(* connect(), lines 65-99                                                  *)
(***************************************************************************)
\* lines 66-67: create the handle if there is none, set the port
ConnectCall ==
    /\ pc = "idle"
    /\ nConnects < MaxConnects
    /\ nConnects' = nConnects + 1
    /\ serial' = [(IF serial.exists THEN serial ELSE NewSerial)
                     EXCEPT !.port = "port"]
    /\ openLog' = << >>
    /\ pc' = "connect_open"
    /\ UNCHANGED << baud, connected, gpsDriver, tries, numTries, rosOk,
                    reportGPSPos, GPSPublisher, satPublished, RTCMPublisher, rtcmBuf,
                    rtcmSent, surveyInStatus, decSurvey, cb, nCallbacks,
                    openAt, opens, iterLog, configures, nRuns >>

\* line 69: serial->open(), outside any try block
ConnectOpen(o) ==
    /\ pc = "connect_open"
    /\ o \in OpenOutcomes(serial, opens)
    /\ serial' = SerialOpen(serial, o)
    /\ opens' = IF serial.isOpen THEN opens ELSE opens + 1
    /\ openLog' = Append(openLog, o)
    /\ pc' = IF Throws(o) THEN "connect_thrown" ELSE "connect_isopen"
    /\ UNCHANGED << baud, connected, gpsDriver, tries, numTries, rosOk,
                    reportGPSPos, GPSPublisher, satPublished, RTCMPublisher, rtcmBuf,
                    rtcmSent, surveyInStatus, decSurvey, cb, nCallbacks,
                    openAt, iterLog, configures, nConnects, nRuns >>

\* ConfigureShape without the setBaudrate call of line 74
ConfigureShape_NoRate(s, b) ==
    [s EXCEPT !.bytesize = 8, !.parity = "none",
              !.stopbits = 1, !.flowcontrol = "none"]

\* lines 74-78
ConfigureShape(s, b) ==
    [s EXCEPT !.baudrate = b, !.connectRate = b, !.bytesize = 8, !.parity = "none",
              !.stopbits = 1, !.flowcontrol = "none"]

\* lines 70-80: return if the port is not open, else configure it and enter the loop
ConnectIsOpen ==
    /\ pc = "connect_isopen"
    /\ IF ~serial.isOpen
         THEN /\ pc' = "connect_ret"
              /\ UNCHANGED << serial, tries >>
         ELSE /\ serial' = ConfigureShape(serial, baud)
              /\ tries' = 0
              /\ pc' = "connect_try"
    /\ UNCHANGED << baud, connected, gpsDriver, numTries, rosOk,
                    reportGPSPos, GPSPublisher, satPublished, RTCMPublisher, rtcmBuf,
                    rtcmSent, surveyInStatus, decSurvey, cb, nCallbacks,
                    openAt, opens, openLog, iterLog, configures, nConnects,
                    nRuns >>

\* lines 81-87: serial->open() inside try; both handlers swallow the exception
ConnectTry(o) ==
    /\ pc = "connect_try"
    /\ o \in OpenOutcomes(serial, opens)
    /\ serial' = SerialOpen(serial, o)
    /\ opens' = IF serial.isOpen THEN opens ELSE opens + 1
    /\ openLog' = Append(openLog, o)
    /\ pc' = "connect_check"
    /\ UNCHANGED << baud, connected, gpsDriver, tries, numTries, rosOk,
                    reportGPSPos, GPSPublisher, satPublished, RTCMPublisher, rtcmBuf,
                    rtcmSent, surveyInStatus, decSurvey, cb, nCallbacks,
                    openAt, iterLog, configures, nConnects, nRuns >>

\* lines 91-92
SetTimeout(s) == [s EXCEPT !.timeout = ReadTimeout]

\* lines 89-98
ConnectCheck ==
    /\ pc = "connect_check"
    /\ IF serial.isOpen
         THEN /\ connected' = TRUE
              /\ serial' = SetTimeout(serial)
              /\ pc' = "connect_ret"
              /\ UNCHANGED tries
         ELSE /\ connected' = FALSE
              /\ tries' = tries + 1
              /\ pc' = IF tries + 1 < ConnectTries THEN "connect_try"
                                                   ELSE "connect_ret"
              /\ UNCHANGED serial
    /\ UNCHANGED << baud, gpsDriver, numTries, rosOk,
                    reportGPSPos, GPSPublisher, satPublished, RTCMPublisher, rtcmBuf,
                    rtcmSent, surveyInStatus, decSurvey, cb, nCallbacks,
                    openAt, opens, openLog, iterLog, configures, nConnects,
                    nRuns >>

\* the caller resumes after connect()
ConnectReturn ==
    /\ pc = "connect_ret"
    /\ pc' = "idle"
    /\ UNCHANGED << baud, serial, connected, gpsDriver, tries, numTries,
                    rosOk, reportGPSPos, GPSPublisher, satPublished, RTCMPublisher,
                    rtcmBuf, rtcmSent, surveyInStatus, decSurvey, cb,
                    nCallbacks, openAt, opens, openLog, iterLog, configures,
                    nConnects, nRuns >>

\* memset left out: the slot keeps its content
memset_Skipped(report) == report

\* lines 105 and 176: memset(&reportGPSPos, 0, sizeof(reportGPSPos))
memset(report) == 0

(***************************************************************************)
(* connect_gps(), lines 169-177: create the decoder, reset the report      *)
(***************************************************************************)
connect_gps ==
    /\ pc = "idle"
    /\ gpsDriver' = TRUE
    /\ reportGPSPos' = memset(reportGPSPos)
    /\ UNCHANGED << pc, baud, serial, connected, tries, numTries, rosOk,
                    GPSPublisher, satPublished, RTCMPublisher, rtcmBuf,
                    rtcmSent, surveyInStatus, decSurvey, cb, nCallbacks,
                    openAt, opens, openLog, iterLog, configures, nConnects,
                    nRuns >>

(***************************************************************************)
(* Report publishers, lines 53-63 and 140-167                              *)
(***************************************************************************)
\* the augmented range taken as 4..7
status_px4_to_ros_Seven(status) ==
    IF status = 3 THEN 0
    ELSE IF status \in 4..7 THEN 2
    ELSE IF status = 8 THEN 1
    ELSE -1

status_px4_to_ros(status) ==
    IF status = 0 THEN -1
    ELSE IF status = 1 THEN -1
    ELSE IF status = 2 THEN -1
    ELSE IF status = 3 THEN 0
    ELSE IF status = 4 THEN 2
    ELSE IF status = 5 THEN 2
    ELSE IF status = 6 THEN 2
    ELSE IF status = 8 THEN 1
    ELSE -1

\* the message publishGPSPosition() hands to GPSPublisher.publish
publishGPSPosition(report) ==
    [frame_id |-> "rtk_base", status |-> status_px4_to_ros(report)]

pReportSatInfo == TRUE      \* line 34: allocated by the constructor, never reset

\* helperRet & m, for the helperRet > 0 on which lines 118 and 123 evaluate it
BitSet(r, m) == (r \div m) % 2 = 1

\* line 118 testing bit 1 instead of bit 0
PositionBit_Bit1(r) == BitSet(r, 2)

\* line 118
PositionBit(r) == BitSet(r, 1)

\* line 123
SatelliteBit(r) == pReportSatInfo /\ BitSet(r, 2)

\* line 115 written as if (helperRet)
GotReport_NonZero(r) == r # 0

\* line 115
GotReport(r) == r > 0

\* numTries reset only by a result with a report bit
NumTriesAfter_BitsOnly(r, n) ==
    IF GotReport(r) /\ (PositionBit(r) \/ SatelliteBit(r)) THEN 0 ELSE n + 1

\* numTries never reset by a report
NumTriesAfter_NoReset(r, n) == n + 1

\* lines 115-129: what one loop iteration does with the result of receive()
\* (the counter, the position messages, the satellite publications)
NumTriesAfter(r, n) == IF GotReport(r) THEN 0 ELSE n + 1

PositionsPublished(r, report) ==
    IF GotReport(r) /\ PositionBit(r) THEN << publishGPSPosition(report) >>
                                      ELSE << >>

SatellitesPublished(r) ==
    IF GotReport(r) /\ SatelliteBit(r) THEN 1 ELSE 0

(***************************************************************************)
(* run(), lines 101-138                                                    *)
(***************************************************************************)
InDecoder == pc \in {"run_configure", "run_receive"}

\* line 102: call gpsDriver->configure; a null gpsDriver faults
RunCall ==
    /\ pc = "idle"
    /\ nRuns < MaxRuns
    /\ nRuns' = nRuns + 1
    /\ pc' = IF gpsDriver THEN "run_configure" ELSE "fault"
    /\ iterLog' = << >>
    /\ configures' = << >>
    /\ GPSPublisher' = << >>
    /\ satPublished' = 0
    /\ RTCMPublisher' = << >>
    /\ rtcmSent' = << >>
    /\ cb' = NoCall
    /\ nCallbacks' = 0
    /\ UNCHANGED << baud, serial, connected, gpsDriver, tries, numTries,
                    rosOk, reportGPSPos, rtcmBuf, surveyInStatus, decSurvey,
                    openAt, opens, openLog, nConnects >>

\* lines 102-109: configure returns ret; on 0 zero the report and start the loop
ConfigureReturn(ret) ==
    /\ pc = "run_configure"
    /\ configures' = Append(configures, ret)
    /\ IF ret = 0
         THEN /\ reportGPSPos' = memset(reportGPSPos)
              /\ numTries' = 0
              /\ pc' = "run_loop"
         ELSE /\ pc' = "run_end"
              /\ UNCHANGED << reportGPSPos, numTries >>
    /\ cb' = NoCall
    /\ nCallbacks' = 0
    /\ rtcmBuf' = << >>
    /\ UNCHANGED << baud, serial, connected, gpsDriver, tries, rosOk,
                    GPSPublisher, satPublished, RTCMPublisher, rtcmSent,
                    surveyInStatus, decSurvey, openAt, opens, openLog,
                    iterLog, nConnects, nRuns >>

\* line 111 then 112: test the loop condition, call receive or leave the loop.
\* cap bounds the number of iterations the model follows.
\* line 111 without the ros::ok() test
LoopCondition_NoFlag(okFlag, n) == n < ReceiveTries

LoopCondition(okFlag, n) == okFlag /\ n < ReceiveTries

LoopTest(cap) ==
    /\ pc = "run_loop"
    /\ IF LoopCondition(rosOk, numTries)
         THEN /\ Len(iterLog) < cap
              /\ pc' = "run_receive"
         ELSE /\ pc' = "run_end"
    /\ GPSPublisher' = << >>
    /\ satPublished' = 0
    /\ RTCMPublisher' = << >>
    /\ rtcmSent' = << >>
    /\ UNCHANGED << baud, serial, connected, gpsDriver, tries, numTries,
                    rosOk, reportGPSPos, rtcmBuf, surveyInStatus, decSurvey,
                    cb, nCallbacks, openAt, opens, openLog, iterLog,
                    configures, nConnects, nRuns >>

\* lines 112-130: receive returns r, the iteration publishes and counts
ReceiveReturn(r) ==
    /\ pc = "run_receive"
    /\ numTries' = NumTriesAfter(r, numTries)
    /\ GPSPublisher' = GPSPublisher \o PositionsPublished(r, reportGPSPos)
    /\ satPublished' = satPublished + SatellitesPublished(r)
    /\ iterLog' = Append(iterLog,
                     [r   |-> r,
                      pos |-> Len(PositionsPublished(r, reportGPSPos)),
                      sat |-> SatellitesPublished(r),
                      n   |-> NumTriesAfter(r, numTries)])
    /\ pc' = "run_loop"
    /\ cb' = NoCall
    /\ nCallbacks' = 0
    /\ rtcmBuf' = << >>
    /\ UNCHANGED << baud, serial, connected, gpsDriver, tries, rosOk,
                    reportGPSPos, RTCMPublisher, rtcmSent, surveyInStatus,
                    decSurvey, openAt, opens, openLog, configures,
                    nConnects, nRuns >>

\* line 137, then back to the caller
RunEnd ==
    /\ pc = "run_end"
    /\ pc' = "idle"
    /\ UNCHANGED << baud, serial, connected, gpsDriver, tries, numTries,
                    rosOk, reportGPSPos, GPSPublisher, satPublished,
                    RTCMPublisher, rtcmBuf, rtcmSent, surveyInStatus,
                    decSurvey, cb, nCallbacks, openAt, opens, openLog,
                    iterLog, configures, nConnects, nRuns >>

\* the externally owned run flag: ros::ok() turns false on shutdown and stays false
Shutdown ==
    /\ rosOk
    /\ rosOk' = FALSE
    /\ UNCHANGED << pc, baud, serial, connected, gpsDriver, tries, numTries,
                    reportGPSPos, GPSPublisher, satPublished, RTCMPublisher,
                    rtcmBuf, rtcmSent, surveyInStatus, decSurvey, cb,
                    nCallbacks, openAt, opens, openLog, iterLog, configures,
                    nConnects, nRuns >>

(***************************************************************************)
(* The decoder, while configure() or receive() is on the stack.  It owns   *)
(* the report slot (constructor arguments of line 173), its RTCM buffer    *)
(* and its survey-in struct, and may write them at any time.               *)
(***************************************************************************)
DecoderWritesReport(ft) ==
    /\ InDecoder
    /\ reportGPSPos # ft
    /\ reportGPSPos' = ft
    /\ UNCHANGED << pc, baud, serial, connected, gpsDriver, tries, numTries,
                    rosOk, GPSPublisher, satPublished, RTCMPublisher,
                    rtcmBuf, rtcmSent, surveyInStatus, decSurvey, cb,
                    nCallbacks, openAt, opens, openLog, iterLog, configures,
                    nConnects, nRuns >>

DecoderWritesBuffer(b) ==
    /\ InDecoder
    /\ rtcmBuf # b
    /\ rtcmBuf' = b
    /\ UNCHANGED << pc, baud, serial, connected, gpsDriver, tries, numTries,
                    rosOk, reportGPSPos, GPSPublisher, satPublished,
                    RTCMPublisher, rtcmSent, surveyInStatus, decSurvey, cb,
                    nCallbacks, openAt, opens, openLog, iterLog, configures,
                    nConnects, nRuns >>

DecoderWritesSurvey(f) ==
    /\ InDecoder
    /\ decSurvey # f
    /\ decSurvey' = f
    /\ UNCHANGED << pc, baud, serial, connected, gpsDriver, tries, numTries,
                    rosOk, reportGPSPos, GPSPublisher, satPublished,
                    RTCMPublisher, rtcmBuf, rtcmSent, surveyInStatus, cb,
                    nCallbacks, openAt, opens, openLog, iterLog, configures,
                    nConnects, nRuns >>

(***************************************************************************)
(* callback(), lines 195-250.  The decoder invokes it through              *)
(* callbackEntry (lines 180-184) while configure() or receive() runs.      *)
(* Each action is one invocation; cb records what it did and returned.     *)
(***************************************************************************)
CanCallBack == InDecoder /\ nCallbacks < MaxCallbacks

\* serial->available(), read(), write() on a null handle fault; on a closed
\* port the serial library throws PortNotOpenedException
SerialUse == IF ~serial.exists THEN "fault"
             ELSE IF ~serial.isOpen THEN "run_thrown"
             ELSE "ok"

\* lines 199-209, as a function of what the transport answers:
\* avail = available(), readable = waitReadable(), got = read(data1, data2)
\* (waits counts the waitReadable() calls, reads the read() calls, req is the
\* size passed to read(), io what the transport answered)
ReadDeviceData_NoWaitCheck(avail, readable, data2, got) ==
    [type |-> "readDeviceData", ret |-> got, reads |-> 1, writes |-> 0,
     req |-> data2, data2 |-> data2,
     waits |-> IF avail = 0 THEN 1 ELSE 0,
     io |-> [avail |-> avail, readable |-> readable, got |-> got]]

ReadDeviceData(avail, readable, data2, got) ==
    IF avail = 0 /\ ~readable
      THEN [type |-> "readDeviceData", ret |-> 0, reads |-> 0, writes |-> 0,
            req |-> 0, data2 |-> data2, waits |-> 1,
            io |-> [avail |-> avail, readable |-> readable, got |-> 0]]
      ELSE [type |-> "readDeviceData", ret |-> got, reads |-> 1, writes |-> 0,
            req |-> data2, data2 |-> data2,
            waits |-> IF avail = 0 THEN 1 ELSE 0,
            io |-> [avail |-> avail, readable |-> readable, got |-> got]]

CallbackRead(avail, readable, data2, got) ==
    /\ CanCallBack
    /\ IF SerialUse # "ok"
         THEN /\ pc' = SerialUse
              /\ UNCHANGED << cb, nCallbacks >>
         ELSE /\ got >= (IF avail < data2 THEN avail ELSE data2)
              /\ cb' = ReadDeviceData(avail, readable, data2, got)
              /\ nCallbacks' = nCallbacks + 1
              /\ UNCHANGED pc
    /\ UNCHANGED << baud, serial, connected, gpsDriver, tries, numTries,
                    rosOk, reportGPSPos, GPSPublisher, satPublished,
                    RTCMPublisher, rtcmBuf, rtcmSent, surveyInStatus,
                    decSurvey, openAt, opens, openLog, iterLog, configures,
                    nConnects, nRuns >>

\* lines 210-217, as a function of what serial->write returns
WriteDeviceData_ReturnsWritten(data2, bytes_written) ==
    [type |-> "writeDeviceData", ret |-> bytes_written,
     reads |-> 0, writes |-> 1, req |-> data2, data2 |-> data2,
     io |-> [written |-> bytes_written]]

WriteDeviceData(data2, bytes_written) ==
    [type |-> "writeDeviceData",
     ret |-> IF bytes_written = data2 THEN data2 ELSE -1,
     reads |-> 0, writes |-> 1, req |-> data2, data2 |-> data2,
     io |-> [written |-> bytes_written]]

CallbackWrite(data2, bytes_written) ==
    /\ CanCallBack
    /\ IF SerialUse # "ok"
         THEN /\ pc' = SerialUse
              /\ UNCHANGED << cb, nCallbacks >>
         ELSE /\ cb' = WriteDeviceData(data2, bytes_written)
              /\ nCallbacks' = nCallbacks + 1
              /\ UNCHANGED pc
    /\ UNCHANGED << baud, serial, connected, gpsDriver, tries, numTries,
                    rosOk, reportGPSPos, GPSPublisher, satPublished,
                    RTCMPublisher, rtcmBuf, rtcmSent, surveyInStatus,
                    decSurvey, openAt, opens, openLog, iterLog, configures,
                    nConnects, nRuns >>

\* lines 219-223: serial->setBaudrate(data2); return true
CallbackSetBaudrate(data2) ==
    /\ CanCallBack
    /\ IF ~serial.exists
         THEN /\ pc' = "fault"
              /\ UNCHANGED << serial, cb, nCallbacks >>
         ELSE /\ serial' = [serial EXCEPT !.baudrate = data2]
              /\ cb' = [type |-> "setBaudrate", ret |-> 1, reads |-> 0,
                        writes |-> 0, req |-> 0, data2 |-> data2]
              /\ nCallbacks' = nCallbacks + 1
              /\ UNCHANGED pc
    /\ UNCHANGED << baud, connected, gpsDriver, tries, numTries, rosOk,
                    reportGPSPos, GPSPublisher, satPublished, RTCMPublisher,
                    rtcmBuf, rtcmSent, surveyInStatus, decSurvey, openAt,
                    opens, openLog, iterLog, configures, nConnects, nRuns >>

\* line 189: std::vector::resize(len) on the empty msg.data
Resize(v, len) == [i \in 1..len |-> IF i <= Len(v) THEN v[i] ELSE 0]

\* line 190 left out: the message keeps the zeros of resize
Assign_Skipped(v, data, len) == v

\* line 190: std::vector::assign(data, data + len) replaces the content by a copy
Assign(v, data, len) == [i \in 1..len |-> data[i]]

\* lines 187-193: the message gotRTCMData hands to RTCMPublisher.publish
gotRTCMData(data, len) == [data |-> Assign(Resize(<< >>, len), data, len)]

\* lines 225-229: the decoder passes its buffer and the message length
CallbackRTCM(len) ==
    /\ CanCallBack
    /\ len \in 0..Len(rtcmBuf)
    /\ RTCMPublisher' = Append(RTCMPublisher, gotRTCMData(rtcmBuf, len))
    /\ rtcmSent' = SubSeq(rtcmBuf, 1, len)
    /\ cb' = [type |-> "gotRTCMMessage", ret |-> 0, reads |-> 0,
              writes |-> 0, req |-> 0, data2 |-> len]
    /\ nCallbacks' = nCallbacks + 1
    /\ UNCHANGED << pc, baud, serial, connected, gpsDriver, tries, numTries,
                    rosOk, reportGPSPos, GPSPublisher, satPublished, rtcmBuf,
                    surveyInStatus, decSurvey, openAt, opens, openLog,
                    iterLog, configures, nConnects, nRuns >>

\* the flags of the struct RTKNode::surveyInStatus points to: the node's own,
\* value-initialised struct (line 33) or the decoder's (line 233)
SurveyInStatusFlags(ptr, decoderFlags) ==
    IF ptr = "own" THEN 0 ELSE decoderFlags

\* line 235: (int)(surveyInStatus->flags & 1)
SurveyValid(flags) == flags % 2

\* (flags >> 1) & 1 without the shift
SurveyActive_NoShift(flags) == flags % 2

\* line 235: (int)((surveyInStatus->flags >> 1) & 1)
SurveyActive(flags) == (flags \div 2) % 2

\* lines 231-237: surveyInStatus = (SurveyInStatus*)data1, the decoder's struct;
\* the record keeps the flags read through the pointer and the two logged bits
CallbackSurvey ==
    /\ CanCallBack
    /\ surveyInStatus' = "decoder"
    /\ cb' = [type |-> "surveyInStatus", ret |-> 0, reads |-> 0,
              writes |-> 0, req |-> 0, data2 |-> 0,
              flags |-> SurveyInStatusFlags("decoder", decSurvey),
              valid |-> SurveyValid(SurveyInStatusFlags("decoder", decSurvey)),
              active |-> SurveyActive(SurveyInStatusFlags("decoder", decSurvey))]
    /\ nCallbacks' = nCallbacks + 1
    /\ UNCHANGED << pc, baud, serial, connected, gpsDriver, tries, numTries,
                    rosOk, reportGPSPos, GPSPublisher, satPublished,
                    RTCMPublisher, rtcmBuf, rtcmSent, decSurvey, openAt,
                    opens, openLog, iterLog, configures, nConnects, nRuns >>

\* an unrecognized kind treated as fatal to the loop
CallbackOther_Fatal(type) ==
    /\ CanCallBack
    /\ cb' = [type |-> type, ret |-> 0, reads |-> 0, writes |-> 0,
              req |-> 0, data2 |-> 0]
    /\ nCallbacks' = nCallbacks + 1
    /\ numTries' = IF type = "unknown" THEN ReceiveTries ELSE numTries
    /\ UNCHANGED << pc, baud, serial, connected, gpsDriver, tries,
                    rosOk, reportGPSPos, GPSPublisher, satPublished,
                    RTCMPublisher, rtcmBuf, rtcmSent, surveyInStatus,
                    decSurvey, openAt, opens, openLog, iterLog, configures,
                    nConnects, nRuns >>

\* lines 239-249: setClock and every other kind only log and return 0
CallbackOther(type) ==
    /\ CanCallBack
    /\ cb' = [type |-> type, ret |-> 0, reads |-> 0, writes |-> 0,
              req |-> 0, data2 |-> 0]
    /\ nCallbacks' = nCallbacks + 1
    /\ UNCHANGED << pc, baud, serial, connected, gpsDriver, tries, numTries,
                    rosOk, reportGPSPos, GPSPublisher, satPublished,
                    RTCMPublisher, rtcmBuf, rtcmSent, surveyInStatus,
                    decSurvey, openAt, opens, openLog, iterLog, configures,
                    nConnects, nRuns >>

Bufs == UNION { [1..n -> Bytes] : n \in 0..MaxLen }

(***************************************************************************)
(* Groups of actions, and the specifications built from them.              *)
(***************************************************************************)
\* connect(), called by the node's owner
Connector ==
    \/ ConnectCall
    \/ \E o \in {"ok", "fail", "io", "other", "noop"} : ConnectOpen(o)
    \/ ConnectIsOpen
    \/ \E o \in {"ok", "fail", "io", "other", "noop"} : ConnectTry(o)
    \/ ConnectCheck
    \/ ConnectReturn

\* connect_gps() and run(), with at most cap iterations and receive() results
\* drawn from results
Session(cap, results) ==
    \/ connect_gps
    \/ RunCall
    \/ \E ret \in {0, -1} : ConfigureReturn(ret)
    \/ LoopTest(cap)
    \/ \E r \in results : ReceiveReturn(r)
    \/ RunEnd
    \/ Shutdown

\* the decoder driving the transport through the bridge
TransportCallbacks ==
    \/ \E avail \in 0..MaxLen, readable \in BOOLEAN, data2 \in 1..MaxLen,
          got \in 0..MaxLen :
          got <= data2 /\ CallbackRead(avail, readable, data2, got)
    \/ \E data2 \in 0..MaxLen, w \in 0..MaxLen :
          w <= data2 /\ CallbackWrite(data2, w)
    \/ \E data2 \in DriverBauds : CallbackSetBaudrate(data2)

\* the same three callbacks on requests of one byte
ByteCallbacks ==
    \/ \E got \in 0..1 : CallbackRead(0, TRUE, 1, got)
    \/ \E w \in 0..1 : CallbackWrite(1, w)
    \/ \E data2 \in DriverBauds : CallbackSetBaudrate(data2)

\* the decoder delivering its events through the bridge
EventCallbacks ==
    \/ \E b \in Bufs : DecoderWritesBuffer(b)
    \/ \E len \in 0..MaxLen : CallbackRTCM(len)
    \/ CallbackSurvey
    \/ \E type \in {"setClock", "unknown"} : CallbackOther(type)

\* The whole node: any sequence of connect(), connect_gps() and run().
Next ==
    \/ Connector
    \/ Session(MaxIterAll, Results)
    \/ \E ft \in FixTypes : DecoderWritesReport(ft)
    \/ ByteCallbacks

Spec == Init /\ [][Next]_vars

\* A session after the documented start-up: connect() succeeded at the first
\* attempt, connect_gps() created the decoder.
InitSession ==
    /\ pc = "idle"
    /\ baud \in RequestedBauds
    /\ serial = SetTimeout(ConfigureShape(
                   [NewSerial EXCEPT !.port = "port", !.isOpen = TRUE], baud))
    /\ connected = TRUE
    /\ gpsDriver = TRUE
    /\ tries = 0
    /\ numTries = 0
    /\ rosOk = TRUE
    /\ reportGPSPos = 0
    /\ GPSPublisher = << >>
    /\ satPublished = 0
    /\ RTCMPublisher = << >>
    /\ rtcmBuf = << >>
    /\ rtcmSent = << >>
    /\ surveyInStatus = "own"
    /\ decSurvey = 0
    /\ cb = NoCall
    /\ nCallbacks = 0
    /\ openAt = 1
    /\ opens = 1
    /\ openLog \in {<< "ok", "noop" >>, << "ok", "other" >>}
    /\ iterLog = << >>
    /\ configures = << >>
    /\ nConnects = 1
    /\ nRuns = 0

\* The session loop on every receive() result.
NextLoop ==
    \/ Session(MaxIter, Results)
    \/ \E ft \in FixTypes : DecoderWritesReport(ft)
    \/ \E type \in {"setClock", "unknown"} : CallbackOther(type)

SpecLoop == InitSession /\ [][NextLoop]_vars

\* The end-to-end scenario: a transport that opens at the first attempt,
\* results 0, 1 and 3, long enough for six calls.
InitE2E == Init /\ openAt = 1

NextE2E ==
    \/ Connector
    \/ Session(MaxIterE2E, E2EResults)
    \/ \E ft \in FixTypes : DecoderWritesReport(ft)

SpecE2E == InitE2E /\ [][NextE2E]_vars

\* The steps of run() itself; receive() and configure() return.
RunSteps ==
    \/ \E ret \in {0, -1} : ConfigureReturn(ret)
    \/ LoopTest(MaxIter)
    \/ \E r \in Results : ReceiveReturn(r)
    \/ RunEnd

FairLoop == SpecLoop /\ WF_vars(RunSteps)

\* The callback bridge on the decoder's events.
NextBridge ==
    \/ Session(MaxIterAll, E2EResults)
    \/ EventCallbacks

SpecBridge == InitSession /\ [][NextBridge]_vars

\* The transport callbacks on every answer of the transport.
NextIO ==
    \/ Session(MaxIterAll, E2EResults)
    \/ TransportCallbacks

SpecIO == InitSession /\ [][NextIO]_vars

\* The survey-in observer on every flags value.
NextSurvey ==
    \/ Session(MaxIterAll, E2EResults)
    \/ \E f \in 0..MaxFlags : DecoderWritesSurvey(f)
    \/ CallbackSurvey

SpecSurvey == InitSession /\ [][NextSurvey]_vars

\* The position publisher on every fix-quality code of the report slot.
NextStatus ==
    \/ Session(MaxIterAll, E2EResults)
    \/ \E ft \in 0..MaxCode : DecoderWritesReport(ft)

SpecStatus == InitSession /\ [][NextStatus]_vars

\* The failure counter, with every callback kind arriving during receive().
CounterResults == {-1, 0, 1, 4}

NextCounter ==
    \/ Session(MaxIter, CounterResults)
    \/ \E got \in 0..1 : CallbackRead(0, TRUE, 1, got)
    \/ \E w \in 0..1 : CallbackWrite(1, w)
    \/ CallbackRTCM(0)
    \/ CallbackSurvey
    \/ \E type \in {"setClock", "unknown"} : CallbackOther(type)

SpecCounter == InitSession /\ [][NextCounter]_vars

(***************************************************************************)
(* Properties.                                                             *)
(***************************************************************************)
Last(q) == q[Len(q)]
ResultsOf(log) == [i \in 1..Len(log) |-> log[i].r]
InRun == pc \in {"run_configure", "run_loop", "run_receive", "run_end"}
InLoop == pc \in {"run_loop", "run_receive"}

\* the last three receive() results of the current run() are all <= 0
ThreeEmpty ==
    /\ Len(iterLog) >= 3
    /\ \A i \in (Len(iterLog) - 2)..Len(iterLog) : iterLog[i].r <= 0

\* the last result is positive and the two before it are <= 0
TwoEmptyThenReport ==
    /\ Len(iterLog) >= 3
    /\ iterLog[Len(iterLog)].r > 0
    /\ iterLog[Len(iterLog) - 1].r <= 0
    /\ iterLog[Len(iterLog) - 2].r <= 0

\* C1: Session-loop abort.  After three consecutive receive() results <= 0
\* the loop is left and receive() is not called again (no result is ever
\* logged after three consecutive results <= 0); after two results <= 0 and
\* then a positive one the counter is 0 and, while the run flag is true, the
\* next step of run() is a further receive() call.
C1_SessionLoopAbort ==
    /\ [](ThreeEmpty => pc # "run_receive" /\ numTries >= ReceiveTries)
    /\ [](\A i \in 1..Len(iterLog) :
             i + 3 <= Len(iterLog) =>
                ~(iterLog[i].r <= 0 /\ iterLog[i+1].r <= 0 /\ iterLog[i+2].r <= 0))
    /\ [][ThreeEmpty /\ pc = "run_loop" /\ pc' # pc => pc' = "run_end"]_vars
    /\ [](TwoEmptyThenReport /\ pc = "run_loop" => numTries = 0)
    /\ [][TwoEmptyThenReport /\ pc = "run_loop" /\ rosOk /\ pc' # pc
             => pc' = "run_receive"]_vars

\* three empty receives in a row have ended the loop
C1_Witness ==
    /\ ThreeEmpty
    /\ pc = "run_end"
    /\ rosOk
    /\ configures = << 0 >>

\* C2 as stated: a transport that first opens on attempt k <= 5 leaves the
\* first connect() connected, at the requested rate.
C2_ConnectorRetry ==
    pc = "connect_ret" /\ nConnects = 1 /\ openAt <= ConnectTries
        => connected /\ serial.baudrate = baud

\* C3 as stated: on a transport that never opens, connect() returns after
\* exactly 5 open attempts, not connected, nothing configured.
C3_ConnectorExhaustion ==
    pc = "connect_ret" /\ nConnects = 1 /\ openAt > ConnectTries
        => /\ Len(openLog) = ConnectTries
           /\ ~connected
           /\ serial.bytesize = "unset"
           /\ serial.timeout = 0

\* C4 as stated: no exception of an open attempt leaves connect().
C4_OpenFaultsCaught == pc # "connect_thrown"

\* C5: when connect() returns with connected set, connect() has configured
\* the transport with the requested rate, 8 data bits, no parity, 1 stop bit,
\* no flow control and a read timeout of 500; the shape and the timeout are
\* never unset, and the rate of a transport that is open at that return is
\* the requested one.
C5_ConfiguredBeforeConnected ==
    pc = "connect_ret" /\ connected
        => /\ serial.connectRate = baud
           /\ serial.isOpen => serial.baudrate = baud
           /\ serial.bytesize = 8
           /\ serial.parity = "none"
           /\ serial.stopbits = 1
           /\ serial.flowcontrol = "none"
           /\ serial.timeout = ReadTimeout

\* a second connect() returns connected after a run() of the decoder
C5_Witness ==
    /\ pc = "connect_ret"
    /\ connected
    /\ nConnects = 2
    /\ nRuns >= 1

\* C6: Bitmask dispatch.  In every iteration the position publisher ran once
\* iff the result is positive with bit 0 set, the satellite publisher ran
\* once iff the result is positive with bit 1 set (the slot being present);
\* a result <= 0 published nothing and raised the counter by exactly one.
\* The sinks hold exactly what the last iteration published.
C6_BitmaskDispatch ==
    /\ \A i \in 1..Len(iterLog) :
          LET e == iterLog[i]
              before == IF i = 1 THEN 0 ELSE iterLog[i-1].n
          IN  /\ e.pos = (IF e.r > 0 /\ e.r % 2 = 1 THEN 1 ELSE 0)
              /\ e.sat = (IF e.r > 0 /\ (e.r \div 2) % 2 = 1 /\ pReportSatInfo
                            THEN 1 ELSE 0)
              /\ e.r <= 0 => e.pos = 0 /\ e.sat = 0 /\ e.n = before + 1
    /\ pc = "run_loop" /\ iterLog # << >>
          => /\ Len(GPSPublisher) = Last(iterLog).pos
             /\ satPublished = Last(iterLog).sat
             /\ numTries = Last(iterLog).n

\* a run() that saw 3 (both publishers) and -1 (all low bits set, no publish)
C6_Witness ==
    /\ pc = "run_loop"
    /\ \E i, j \in 1..Len(iterLog) : iterLog[i].r = 3 /\ iterLog[j].r = -1
    /\ Last(iterLog).r = 3

E2ESequence == << 1, 0, 3, 0, 0 >>

E2EExpected ==
    << [r |-> 1, pos |-> 1, sat |-> 0, n |-> 0],
       [r |-> 0, pos |-> 0, sat |-> 0, n |-> 1],
       [r |-> 3, pos |-> 1, sat |-> 1, n |-> 0],
       [r |-> 0, pos |-> 0, sat |-> 0, n |-> 1],
       [r |-> 0, pos |-> 0, sat |-> 0, n |-> 2] >>

\* the results so far are the first results of the scenario
OnE2EPath ==
    /\ InRun
    /\ connected
    /\ configures = << 0 >>
    /\ Len(iterLog) <= 5
    /\ ResultsOf(iterLog) = SubSeq(E2ESequence, 1, Len(iterLog))

\* C7: End-to-end trace.  With the transport open at the first attempt and
\* the decoder configured, the results 1, 0, 3, 0, 0 publish one position
\* after call 1, nothing after call 2 (counter 1), one position and one
\* satellite after call 3 (counter 0), leave the counter at 1 after call 4
\* and 2 after call 5, and with the run flag true the loop then issues a
\* sixth receive().
C7_EndToEndTrace ==
    /\ [](OnE2EPath => iterLog = SubSeq(E2EExpected, 1, Len(iterLog)))
    /\ [](OnE2EPath /\ pc = "run_loop" /\ iterLog # << >>
            => /\ numTries = Last(iterLog).n
               /\ Len(GPSPublisher) = Last(iterLog).pos
               /\ satPublished = Last(iterLog).sat)
    /\ [](OnE2EPath /\ Len(iterLog) = 5 /\ rosOk
            => pc \in {"run_loop", "run_receive"})
    /\ [][OnE2EPath /\ Len(iterLog) = 5 /\ rosOk /\ pc = "run_loop" /\ pc' # pc
            => pc' = "run_receive"]_vars

\* the sixth receive() of the scenario is in progress
C7_Witness ==
    /\ OnE2EPath
    /\ Len(iterLog) = 5
    /\ pc = "run_receive"
    /\ openLog[1] = "ok"

\* C8: Configuration gate.  A run() calls configure exactly once; when it
\* fails no receive() is made and nothing is published in that run(); when
\* it succeeds the position report is zero at the first loop test, before
\* the first receive().
C8_ConfigurationGate ==
    /\ Len(configures) <= 1
    /\ pc = "run_configure" => configures = << >>
    /\ pc \in {"run_loop", "run_receive"} => configures = << 0 >>
    /\ pc = "run_end" => Len(configures) = 1
    /\ configures = << -1 >>
          => /\ pc \in {"run_end", "idle"}
             /\ iterLog = << >>
             /\ GPSPublisher = << >>
             /\ satPublished = 0
    /\ pc = "run_loop" /\ iterLog = << >> => reportGPSPos = 0

\* a second run() is at its first loop test
C8_Witness ==
    /\ pc = "run_loop"
    /\ iterLog = << >>
    /\ configures = << 0 >>
    /\ nRuns = 2

\* C9 as stated: receive() is entered only from the loop test with the run
\* flag true; a loop test that finds the flag false leaves the loop; run()
\* returns, receive() returning, when the flag is false or three consecutive
\* results are <= 0, and reaches its end for no other reason.
C9_AsStated ==
    /\ [][pc' = "run_receive" /\ pc # "run_receive"
            => pc = "run_loop" /\ rosOk]_vars
    /\ [][pc = "run_loop" /\ ~rosOk /\ pc' # pc => pc' = "run_end"]_vars
    /\ [](pc = "run_end" => ~rosOk \/ ThreeEmpty)
    /\ (InLoop /\ ~rosOk) ~> (pc = "idle")
    /\ (InLoop /\ ThreeEmpty) ~> (pc = "idle")

\* C9: Cooperative cancellation and termination.  receive() is entered only
\* from the loop test with the run flag true; a loop test that finds the
\* flag false leaves the loop; run() reaches its end only with the flag
\* false, with three consecutive results <= 0, or with configure() having
\* failed; and, receive() returning, a loop whose flag is false or whose
\* last three results are <= 0 ends and run() returns.
C9_CooperativeCancellation ==
    /\ [][pc' = "run_receive" /\ pc # "run_receive"
            => pc = "run_loop" /\ rosOk]_vars
    /\ [][pc = "run_loop" /\ ~rosOk /\ pc' # pc => pc' = "run_end"]_vars
    /\ [][pc = "run_loop" /\ pc' = "run_end"
            => ~rosOk \/ numTries >= ReceiveTries]_vars
    /\ [](pc = "run_end" => ~rosOk \/ ThreeEmpty \/ configures = << -1 >>)
    /\ (InLoop /\ ~rosOk) ~> (pc = "idle")
    /\ (InLoop /\ ThreeEmpty) ~> (pc = "idle")

\* the loop was left on the run flag alone
C9_Witness ==
    /\ pc = "run_end"
    /\ ~rosOk
    /\ configures = << 0 >>
    /\ numTries < ReceiveTries
    /\ iterLog # << >>

\* C10: Correction forwarding.  Each RTCM callback publishes exactly one
\* message and returns 0; the message holds exactly the bytes handed to the
\* callback, in order, and keeps them whatever the decoder writes into its
\* buffer afterwards.
C10_CorrectionRoundTrip ==
    /\ [][cb'.type = "gotRTCMMessage" /\ nCallbacks' = nCallbacks + 1
            => /\ Len(RTCMPublisher') = Len(RTCMPublisher) + 1
               /\ cb'.ret = 0
               /\ Len(Last(RTCMPublisher').data) = cb'.data2]_vars
    /\ [](RTCMPublisher # << >> => Last(RTCMPublisher).data = rtcmSent)
    /\ [][RTCMPublisher # << >> /\ rtcmBuf' # rtcmBuf
            => RTCMPublisher' = RTCMPublisher]_vars

\* the decoder has overwritten the bytes of a message it had handed over
C10_Witness ==
    /\ cb.type = "gotRTCMMessage"
    /\ RTCMPublisher # << >>
    /\ Len(rtcmSent) >= 1
    /\ Len(rtcmBuf) >= Len(rtcmSent)
    /\ SubSeq(rtcmBuf, 1, Len(rtcmSent)) # rtcmSent

\* C11 as stated: after a survey-in callback the session's status is the
\* value the decoder's struct held at that callback, whatever the decoder
\* writes into the struct afterwards.
C11_SurveyByCopy ==
    cb.type = "surveyInStatus"
        => SurveyInStatusFlags(surveyInStatus, decSurvey) = cb.flags

\* C12: Write callback.  Each write callback makes exactly one transport
\* write and no read; it returns its length n iff the transport reports n
\* bytes written, and -1 in every other case.
C12_WriteCallback ==
    cb.type = "writeDeviceData"
        => /\ cb.writes = 1
           /\ cb.reads = 0
           /\ cb.req = cb.data2
           /\ (cb.ret = cb.data2) <=> (cb.io.written = cb.data2)
           /\ cb.io.written # cb.data2 => cb.ret = -1

\* a short write was reported
C12_Witness ==
    /\ cb.type = "writeDeviceData"
    /\ cb.io.written >= 1
    /\ cb.io.written < cb.data2

\* C13: Read callback.  With zero bytes available it waits for readability
\* and, still not readable, returns 0 without a read; otherwise it makes
\* exactly one read of at most data2 bytes and returns the number of bytes
\* read, which lies in 0..data2.
C13_ReadCallback ==
    cb.type = "readDeviceData"
        => /\ cb.writes = 0
           /\ cb.waits = (IF cb.io.avail = 0 THEN 1 ELSE 0)
           /\ IF cb.io.avail = 0 /\ ~cb.io.readable
                THEN cb.ret = 0 /\ cb.reads = 0
                ELSE /\ cb.reads = 1
                     /\ cb.req <= cb.data2
                     /\ cb.ret = cb.io.got
                     /\ cb.ret \in 0..cb.data2

\* nothing available, not readable after the wait
C13_Witness ==
    /\ cb.type = "readDeviceData"
    /\ cb.io.avail = 0
    /\ ~cb.io.readable
    /\ cb.reads = 0

\* bit b (0 or 1) of the natural number flags is set
FlagBit(flags, b) ==
    \E hi \in 0..flags, lo \in 0..1 :
        flags = IF b = 0 THEN 2 * hi + 1 ELSE 4 * hi + 2 + lo

\* C15: Survey-in flags decode.  For every flags value valid is reported iff
\* bit 0 is set and active iff bit 1 is set, whatever the other bits.
C15_SurveyFlagsDecode ==
    cb.type = "surveyInStatus"
        => /\ (cb.valid = 1) <=> FlagBit(cb.flags, 0)
           /\ (cb.active = 1) <=> FlagBit(cb.flags, 1)
           /\ cb.valid \in {0, 1} /\ cb.active \in {0, 1}
           /\ cb.flags = 3 => cb.valid = 1 /\ cb.active = 1
           /\ cb.flags = 0 => cb.valid = 0 /\ cb.active = 0
           /\ cb.flags = 1 => cb.valid = 1 /\ cb.active = 0
           /\ cb.flags = 2 => cb.valid = 0 /\ cb.active = 1

\* active only, with a higher bit set
C15_Witness ==
    /\ cb.type = "surveyInStatus"
    /\ cb.flags = 6
    /\ cb.active = 1

\* the four output statuses
NoFix == 0 - 1
Fix == 0
DeadReckoning == 1
AugmentedFix == 2

ExpectedStatus(code) ==
    CASE code \in {0, 1, 2} -> NoFix
      [] code = 3           -> Fix
      [] code \in {4, 5, 6} -> AugmentedFix
      [] code = 8           -> DeadReckoning
      [] OTHER              -> NoFix

\* C14: Fix-quality mapping.  Codes 0, 1, 2 map to no fix, 3 to fix, 4, 5, 6
\* to augmented fix, 8 to dead-reckoning and every other integer (7,
\* negatives, above 8) to no fix; a published position carries the mapping
\* of the fix-quality code the report slot holds when it is published.
C14_FixQualityMapping ==
    /\ \A code \in (0 - MaxCode)..(2 * MaxCode) :
          status_px4_to_ros(code) = ExpectedStatus(code)
    /\ pc = "run_loop" /\ GPSPublisher # << >>
          => Last(GPSPublisher).status = ExpectedStatus(reportGPSPos)

\* a position was published from a slot holding code 7
C14_Witness ==
    /\ pc = "run_loop"
    /\ GPSPublisher # << >>
    /\ reportGPSPos = 7
    /\ Last(GPSPublisher).status = NoFix

\* C16: set-clock and unrecognized kinds return 0, touch neither transport
\* nor sinks, and leave the connection state, the report slot, the survey-in
\* status, the failure counter and the position of run() unchanged; after an
\* unrecognized kind the receive() in progress returns to the loop test and
\* the counter follows its result alone.
C16_OtherKindsChangeNothing ==
    /\ [][cb'.type \in {"setClock", "unknown"} /\ nCallbacks' = nCallbacks + 1
            => /\ cb'.ret = 0
               /\ cb'.reads = 0
               /\ cb'.writes = 0
               /\ UNCHANGED << pc, serial, connected, reportGPSPos,
                               surveyInStatus, decSurvey, numTries,
                               GPSPublisher, satPublished, RTCMPublisher,
                               iterLog >>]_vars
    /\ [][cb.type = "unknown" /\ pc = "run_receive" /\ pc' # pc
            => /\ pc' = "run_loop"
               /\ numTries' = IF Last(iterLog').r > 0 THEN 0
                                                      ELSE numTries + 1]_vars

\* an unrecognized kind arrived during receive()
C16_Witness ==
    /\ cb.type = "unknown"
    /\ pc = "run_receive"
    /\ surveyInStatus = "decoder"

\* the number of results <= 0 at the end of the log
TrailingEmpty(log) ==
    LET reports == { i \in 1..Len(log) : log[i].r > 0 }
        last == IF reports = {} THEN 0
                ELSE CHOOSE i \in reports : \A j \in reports : j <= i
    IN  Len(log) - last

\* C17: Failure-counter invariant.  Inside the loop the counter is in 0..3
\* and equals the number of results <= 0 since the last positive result (or
\* the start of the loop); it is 0 after every positive result, report bit
\* or not; receive() runs only with the counter below 3; no callback
\* changes it.
C17_FailureCounter ==
    /\ [](pc \in {"run_loop", "run_receive"} \/ (pc = "run_end" /\ configures = << 0 >>)
            => /\ numTries \in 0..ReceiveTries
               /\ numTries = TrailingEmpty(iterLog))
    /\ [](pc = "run_receive" => numTries < ReceiveTries)
    /\ [](\A i \in 1..Len(iterLog) : iterLog[i].r > 0 => iterLog[i].n = 0)
    /\ [][nCallbacks' = nCallbacks + 1 => numTries' = numTries]_vars

\* the result 4, without a report bit, has reset a counter that was not 0
C17_Witness ==
    /\ pc = "run_loop"
    /\ Len(iterLog) >= 2
    /\ Last(iterLog).r = 4
    /\ iterLog[Len(iterLog) - 1].r <= 0
    /\ numTries = 0

\* C18 as stated: connect() never calls open() on a handle that reports open.
C18_HandleReuse ==
    pc \in {"connect_open", "connect_try"} => ~serial.isOpen

\* C19 as stated: when connect() returns, connected is true iff the transport
\* reports open.
C19_FlagConsistency ==
    pc = "connect_ret" => (connected <=> serial.isOpen)

\* C20 as stated: run() has the decoder configure or receive, and the
\* decoder reach the transport through the bridge, only with a transport
\* handle present and connected set.
C20_NoIOWhileNotConnected ==
    InDecoder => serial.exists /\ connected
====
